---- MODULE Spec2Model ----
(***************************************************************************)
(* CHULOOPA drum variation generator (src/src/drum_variation_ai.py).       *)
(*                                                                         *)
(* Specifications, over one set of variables:                             *)
(*   SpecGen      : the pattern pipeline generate_variation -> to_file,    *)
(*                  applied to patterns drawn from a bounded set;          *)
(*   SpecRecorded : the same from recorded patterns (one-second loop,      *)
(*                  hits in time order, the first at the loop start);      *)
(*   SpecGemini   : the same for the strategies that reach the backend;    *)
(*   SpecHumanize : humanize_pattern alone;                                *)
(*   SpecShift    : shift_pattern alone;                                   *)
(*   SpecRoundTrip: to_file followed by from_file;                         *)
(*   Spec         : the running program: watch mode (OSC handler threads,  *)
(*                  the file watcher, the files, the outbound OSC          *)
(*                  messages) and manual mode;                             *)
(*   SpecAuto     : watch mode around a DrumFileHandler that generates on  *)
(*                  file changes (auto_generate=True);                     *)
(*   SpecAll      : Spec and SpecAuto together.                            *)
(*   SpecWatcher  : the file watcher alone, with either auto_generate;     *)
(*   SpecServe    : the OSC listener alone, handler threads scheduled      *)
(*                  fairly;                                                *)
(*   SpecBurst    : the OSC listener alone under a burst of messages.      *)
(*                                                                         *)
(* Floats are fixed-point integers.  One second is Sec units and one       *)
(* microsecond (the sixth decimal that to_file prints) is SubPerMicro      *)
(* units, so that a value can lie between two printable values.            *)
(***************************************************************************)
EXTENDS Integers, Sequences, FiniteSets, TLC

VARIABLES
    \* ---- pattern pipeline (SpecGen) ----
    pattern,        \* the caller's DrumPattern
    vtype,          \* variation_type given to generate_variation
    varied,         \* the DrumPattern generate_variation returned
    saved,          \* the file contents to_file wrote
    stage,          \* position in the pipeline
    reply,          \* what the backend answered in this run
    result_id,      \* identity of the object the last call returned
    \* ---- module globals ----
    HAVE_GEMINI,
    GEMINI_API_KEY,
    current_spice_level,
    osc_client,
    \* ---- running program (Spec) ----
    mode,           \* "watch" | "manual" | "none"
    fs,             \* path -> file contents (NoText when there is no file)
    dirs,           \* existing directories
    sent,           \* sender -> the OSC messages of its current (or last) run, in order
    thr,            \* workers (OSC handler threads, observer thread) -> record
    watcher,        \* the watchdog observer thread and its handler
    events,         \* file events queued for the observer thread, with their times
    clock,          \* time.time(), in ClockTick units
    budget,         \* inputs the environment may still produce
    mainp           \* manual mode: main / generate_variation_for_file

vars == <<pattern, vtype, varied, saved, stage, reply, result_id, HAVE_GEMINI, GEMINI_API_KEY,
          current_spice_level, osc_client, mode, fs, dirs, sent, thr,
          watcher, events, clock, budget, mainp>>

genVars == <<pattern, vtype, varied, saved, stage, reply, result_id>>
progVars == <<mode, fs, dirs, sent, thr, watcher, events, clock, budget, mainp>>

-----------------------------------------------------------------------------
(* Numbers *)

\* Units per microsecond: resolution of a float below the six decimals of ":.6f".
SubPerMicro == 3
Micro(n) == n * SubPerMicro
Sec == Micro(1000000)

None == "None"

Min(a, b) == IF a < b THEN a ELSE b
Max(a, b) == IF a > b THEN a ELSE b
Abs(a) == IF a < 0 THEN -a ELSE a

\* f"{x:.6f}": the printed value, as a number of microseconds (round to nearest).
Fmt6(x) == (2 * x + SubPerMicro) \div (2 * SubPerMicro)
\* float(text) of a six-decimal text.
ParseFloat(m) == m * SubPerMicro

\* random.gauss(0, sigma): a draw on either side, GaussSpread sigmas out.
GaussSpread == 2
GaussSamples(sigma) == {-(GaussSpread * sigma), GaussSpread * sigma}

\* random.random() < p, p in percent.
Coin(p) == IF p <= 0 THEN {FALSE} ELSE IF p >= 100 THEN {TRUE} ELSE BOOLEAN

-----------------------------------------------------------------------------
(* DrumHit, DrumPattern *)

DrumHit(c, t, v, d) == [drum_class |-> c, timestamp |-> t, velocity |-> v, delta_time |-> d]
DrumPattern(h, L) == [hits |-> h, loop_duration |-> L]

\* An exception leaving the function, in place of a returned pattern.
Raised == [hits |-> <<>>, loop_duration |-> 0, raised |-> TRUE]

Classes == {0, 1, 2}
VelOne == Sec                    \* velocity 1.0
VelFloor == Micro(100000)        \* velocity 0.1
ClampMargin == Micro(10000)      \* 0.01 s

RECURSIVE ProductSeq(_)
\* All sequences whose i-th element is drawn from S[i].
ProductSeq(S) ==
    IF S = <<>> THEN {<<>>}
    ELSE {<<x>> \o r : x \in Head(S), r \in ProductSeq(Tail(S))}

RECURSIVE Flatten(_)
Flatten(ss) == IF ss = <<>> THEN <<>> ELSE Head(ss) \o Flatten(Tail(ss))

RECURSIVE SortedInsert(_, _)
SortedInsert(s, h) ==
    IF s = <<>> THEN <<h>>
    ELSE IF h.timestamp < Head(s).timestamp THEN <<h>> \o s
    ELSE <<Head(s)>> \o SortedInsert(Tail(s), h)

RECURSIVE SortHits(_)
\* list.sort(key=lambda h: h.timestamp): stable.
SortHits(hits) ==
    IF hits = <<>> THEN <<>>
    ELSE SortedInsert(SortHits(SubSeq(hits, 1, Len(hits) - 1)), hits[Len(hits)])

\* DrumPattern._recalculate_delta_times
KeepDeltaTimes(p) == p
recalculate_delta_times(p) ==
    IF p.hits = <<>> THEN p
    ELSE LET s == SortHits(p.hits)
             n == Len(s)
         IN [p EXCEPT !.hits =
                [i \in 1..n |->
                    [s[i] EXCEPT !.delta_time =
                        IF i < n THEN s[i + 1].timestamp - s[i].timestamp
                        ELSE p.loop_duration - s[i].timestamp]]]

\* The text to_file writes: the duration header and one record per hit.
FileText(p) ==
    [duration |-> Fmt6(p.loop_duration),
     lines |-> [i \in 1..Len(p.hits) |->
                  [drum_class |-> p.hits[i].drum_class,
                   timestamp |-> Fmt6(p.hits[i].timestamp),
                   velocity |-> Fmt6(p.hits[i].velocity),
                   delta_time |-> Fmt6(p.hits[i].delta_time)]]]

\* DrumPattern.to_file: the pattern object after the call, and the text written.
to_file(p) ==
    LET q == recalculate_delta_times(p)
    IN [self |-> q, text |-> FileText(q)]

\* DrumPattern.from_file on a file holding `text`.
from_file(text) ==
    LET hits == [i \in 1..Len(text.lines) |->
                    DrumHit(text.lines[i].drum_class,
                            ParseFloat(text.lines[i].timestamp),
                            ParseFloat(text.lines[i].velocity),
                            ParseFloat(text.lines[i].delta_time))]
        header == ParseFloat(text.duration)
        L == IF header = 0 /\ hits # <<>>
             THEN hits[Len(hits)].timestamp + hits[Len(hits)].delta_time
             ELSE header
    IN DrumPattern(hits, L)

\* DrumPattern.copy
copy(p) == DrumPattern([i \in 1..Len(p.hits) |->
                          DrumHit(p.hits[i].drum_class, p.hits[i].timestamp,
                                  p.hits[i].velocity, p.hits[i].delta_time)],
                       p.loop_duration)

-----------------------------------------------------------------------------
(* Algorithmic variations.  Each operator is the set of patterns the       *)
(* function can return, one for every outcome of its random draws.         *)

\* Default keyword arguments (probabilities in percent).
HUMANIZE_TIMING == Micro(20000)      \* timing_variance = 0.02
HUMANIZE_VELOCITY == Micro(100000)   \* velocity_variance = 0.1
GROOVE_TIMING == Micro(15000)        \* timing_variance = 0.015
GROOVE_VELOCITY == Micro(80000)      \* velocity_variance = 0.08
GROOVE_ACCENT == Micro(100000)       \* accent_shift = 0.1

ClampVelocity(v) == Max(VelFloor, Min(VelOne, v))

\* humanize_pattern
humanize_pattern(p, timing_variance, velocity_variance) ==
    LET L == p.loop_duration
        HitChoices(h) ==
            {[h EXCEPT !.timestamp = Min(Max(0, h.timestamp + ts), L - ClampMargin),
                       !.velocity = ClampVelocity(h.velocity + vs)] :
                ts \in GaussSamples(timing_variance \div 2),
                vs \in GaussSamples(velocity_variance \div 2)}
    IN {DrumPattern(hs, L) :
            hs \in ProductSeq([i \in 1..Len(p.hits) |-> HitChoices(p.hits[i])])}

\* random.uniform(0.05, 0.15): the ghost note's distance from its hit.
GhostOffsets == {Micro(50000), Micro(150000)}
\* random.uniform(0.3, 0.6), in percent: ghost velocity scale.
GhostScales == {30, 60}

\* mutate_pattern
mutate_pattern(p, swap_probability, add_probability, remove_probability) ==
    LET L == p.loop_duration
        SwapClasses(h) ==
            (IF FALSE \in Coin(swap_probability) THEN {h.drum_class} ELSE {})
            \cup (IF TRUE \in Coin(swap_probability)
                  THEN Classes \ {h.drum_class} ELSE {})
        Ghosts(h) ==
            (IF FALSE \in Coin(add_probability) THEN {<<>>} ELSE {})
            \cup (IF TRUE \in Coin(add_probability)
                  THEN {IF h.timestamp + off < L
                        THEN <<DrumHit(c, h.timestamp + off,
                                       (h.velocity * sc) \div 100, 0)>>
                        ELSE <<>> :
                            off \in GhostOffsets, c \in Classes, sc \in GhostScales}
                  ELSE {})
        HitChoices(h) ==
            (IF TRUE \in Coin(remove_probability) THEN {<<>>} ELSE {})
            \cup (IF FALSE \in Coin(remove_probability)
                  THEN {<<[h EXCEPT !.drum_class = c]>> \o g :
                            c \in SwapClasses(h), g \in Ghosts(h)}
                  ELSE {})
    IN {DrumPattern(Flatten(hs), L) :
            hs \in ProductSeq([i \in 1..Len(p.hits) |-> HitChoices(p.hits[i])])}

GapThreshold == Micro(200000)        \* gap > 0.2
FillSpacing == Micro(100000)         \* int(gap / 0.1)
\* random.uniform(0.3, 0.6): fill velocity.
FillVelocities == {Micro(300000), Micro(600000)}

\* densify_pattern
densify_pattern(p, fill_probability) ==
    LET s == SortHits(p.hits)
        Fills(i) ==
            LET current == s[i]
                gap == s[i + 1].timestamp - current.timestamp
            IN (IF gap > GapThreshold /\ TRUE \in Coin(fill_probability)
                THEN UNION {
                       ProductSeq([j \in 1..num_fills |->
                          {DrumHit(2, current.timestamp + (gap * j) \div (num_fills + 1),
                                   v, 0) : v \in FillVelocities}]) :
                       num_fills \in 1..Min(3, gap \div FillSpacing)}
                ELSE {})
               \cup (IF gap > GapThreshold /\ Coin(fill_probability) = {TRUE}
                     THEN {} ELSE {<<>>})
    IN {DrumPattern(s \o Flatten(fs_), p.loop_duration) :
            fs_ \in ProductSeq([i \in 1..(Len(s) - 1) |-> Fills(i)])}

\* simplify_pattern: the first kick in list order is always kept.
FirstKickIndex(hits) ==
    IF \E i \in 1..Len(hits) : hits[i].drum_class = 0
    THEN CHOOSE i \in 1..Len(hits) :
            /\ hits[i].drum_class = 0
            /\ \A j \in 1..(i - 1) : hits[j].drum_class # 0
    ELSE 0

simplify_pattern(p, keep_probability) ==
    LET first_kick == FirstKickIndex(p.hits)
        HitChoices(i) ==
            IF i = first_kick THEN {<<p.hits[i]>>}
            ELSE {IF k THEN <<p.hits[i]>> ELSE <<>> : k \in Coin(keep_probability)}
    IN {DrumPattern(Flatten(hs), p.loop_duration) :
            hs \in ProductSeq([i \in 1..Len(p.hits) |-> HitChoices(i)])}

\* shift_pattern; shift_amount = None draws a signed multiple of a sixteenth.
SixteenthSteps == {-2, -1, 1, 2}
\* shift_amount: None, or a float.
NoAmount == <<>>
Amount(a) == <<a>>
shift_unwrapped(p, shift_amount) ==
    LET L == p.loop_duration
        amounts == IF shift_amount = NoAmount
                   THEN {k * (L \div 16) : k \in SixteenthSteps}
                   ELSE {shift_amount[1]}
    IN {DrumPattern([i \in 1..Len(p.hits) |->
                        [p.hits[i] EXCEPT !.timestamp = p.hits[i].timestamp + a]],
                    L) : a \in amounts}
shift_pattern(p, shift_amount) ==
    LET L == p.loop_duration
        amounts == IF shift_amount = NoAmount
                   THEN {k * (L \div 16) : k \in SixteenthSteps}
                   ELSE {shift_amount[1]}
    IN IF p.hits # <<>> /\ L = 0 THEN {Raised}      \* ZeroDivisionError
       ELSE {DrumPattern([i \in 1..Len(p.hits) |->
                        [p.hits[i] EXCEPT !.timestamp = (p.hits[i].timestamp + a) % L]],
                    L) : a \in amounts}

\* random.uniform(0.5, 1.0) and random.uniform(0.3, 0.8), in percent: accent weight.
DownbeatWeights == {50, 100}
BackbeatWeights == {30, 80}

\* groove_preserve
groove_preserve(p, timing_variance, velocity_variance, accent_shift, swap_probability) ==
    LET L == p.loop_duration
        beat_duration == L \div 4
        half_beat == beat_duration \div 2
        HitChoices(h) ==
            UNION {
              LET t == Min(Max(0, h.timestamp + ts), L - ClampMargin)
                  beat_position == t % beat_duration
                  is_downbeat == beat_position < beat_duration \div 10
                  is_backbeat == Abs(beat_position - half_beat) < beat_duration \div 10
                  accents == IF is_downbeat /\ h.drum_class = 0
                             THEN {(accent_shift * w) \div 100 : w \in DownbeatWeights}
                             ELSE IF is_backbeat /\ h.drum_class = 1
                             THEN {(accent_shift * w) \div 100 : w \in BackbeatWeights}
                             ELSE {0}
              IN {[h EXCEPT !.timestamp = t,
                            !.velocity = ClampVelocity(h.velocity + vs + a)] :
                     vs \in GaussSamples(velocity_variance \div 2), a \in accents} :
              ts \in GaussSamples(IF h.drum_class = 0 THEN timing_variance \div 3
                                  ELSE timing_variance \div 2)}
    IN IF p.hits = <<>> THEN {copy(p)}
       ELSE IF L = 0 THEN {Raised}                    \* ZeroDivisionError
       ELSE {DrumPattern(hs, L) :
                hs \in ProductSeq([i \in 1..Len(p.hits) |-> HitChoices(p.hits[i])])}

-----------------------------------------------------------------------------
(* Gemini variation generator *)

\* What the backend call can come to.  "raise": the client or the call raised;
\* "bad_json": json.loads raised; "no_pattern": valid JSON without a usable
\* 'pattern' entry; "ok": JSON whose 'pattern' text holds `lines`.
ReplyKinds == {"raise", "bad_json", "no_pattern", "ok"}
\* A line of the reply's pattern text: it parses into a hit, or it does not.
ReplyLine(ok, c, t, v, d) == [parses |-> ok, hit |-> DrumHit(c, t, v, d)]
ParsedHits(pattern_text) ==
    LET good == SelectSeq(pattern_text, LAMBDA l : l.parses)
    IN [i \in 1..Len(good) |-> good[i].hit]


\* parse_gemini_pattern: lines that do not parse are skipped, the others are taken
\* as they are; loop_duration is the caller's.
parse_gemini_pattern(pattern_text, loop_duration) ==
    DrumPattern(ParsedHits(pattern_text), loop_duration)

\* gemini_variation without its last handler, "except Exception".
gemini_variation_unguarded(p, temperature, have, key, r) ==
    LET fallback == groove_preserve(p, GROOVE_TIMING, GROOVE_VELOCITY, GROOVE_ACCENT, 5)
    IN IF ~have THEN fallback
       ELSE IF ~key THEN fallback
       ELSE IF r.kind = "bad_json" THEN fallback
       ELSE IF r.kind # "ok" THEN {Raised}
       ELSE LET variation == DrumPattern(ParsedHits(r.lines), p.loop_duration)
            IN IF variation.hits = <<>> THEN fallback ELSE {variation}

\* gemini_variation(pattern, temperature) with the module flags and the reply.
gemini_variation(p, temperature, have, key, r) ==
    LET fallback == groove_preserve(p, GROOVE_TIMING, GROOVE_VELOCITY, GROOVE_ACCENT, 5)
    IN IF ~have THEN fallback
       ELSE IF ~key THEN fallback
       ELSE IF r.kind # "ok" THEN fallback
       ELSE LET variation == parse_gemini_pattern(r.lines, p.loop_duration)
            IN IF variation.hits = <<>> THEN fallback ELSE {variation}

\* Whether gemini_variation gets as far as calling the backend.
CallsBackend(t, have, key) ==
    t \notin {"groove_preserve", "humanize", "mutate", "densify", "simplify",
              "shift", "random"} /\ have /\ key

VariationTypes == {"gemini", "groove_preserve", "humanize", "mutate", "densify",
                   "simplify", "shift", "random", "unknown"}

DEFAULT_TEMPERATURE == 70           \* temperature = 0.7, in percent

\* generate_variation(pattern, variation_type, temperature=...)
generate_variation(p, variation_type, temperature, have, key, r) ==
    CASE variation_type = "gemini" -> gemini_variation(p, temperature, have, key, r)
      [] variation_type = "groove_preserve" ->
            groove_preserve(p, GROOVE_TIMING, GROOVE_VELOCITY, GROOVE_ACCENT, 5)
      [] variation_type = "humanize" ->
            humanize_pattern(p, HUMANIZE_TIMING, HUMANIZE_VELOCITY)
      [] variation_type = "mutate" -> mutate_pattern(p, 20, 10, 10)
      [] variation_type = "densify" -> densify_pattern(p, 30)
      [] variation_type = "simplify" -> simplify_pattern(p, 60)
      [] variation_type = "shift" -> shift_pattern(p, NoAmount)
      [] variation_type = "random" ->
            LET r1 == humanize_pattern(copy(p), GROOVE_TIMING, GROOVE_VELOCITY)
                r2 == r1 \cup UNION {mutate_pattern(q, 15, 10, 5) : q \in r1}
                r3 == r2 \cup UNION {densify_pattern(q, 20) : q \in r2}
            IN r3 \cup UNION {shift_pattern(q, NoAmount) : q \in r3}
      [] OTHER -> gemini_variation(p, DEFAULT_TEMPERATURE, have, key, r)

-----------------------------------------------------------------------------
(* Inputs of the pattern pipeline *)

MaxHits == 2            \* hits in an input pattern
MaxHitsRandom == 1      \* hits in an input pattern given to 'random'
MaxReplyLines == 2      \* lines in a backend reply

LoopDurations == {Micro(8000), Sec}

\* Hits of a recorded pattern of duration L: a full-velocity kick on the downbeat,
\* a soft snare on the backbeat, a kick half way, a hat just before the loop end.
HitPool(L) ==
    {DrumHit(0, 0, VelOne, 0),
     DrumHit(1, L \div 8, Micro(50000), 0),
     DrumHit(0, L \div 2, Micro(500000), 0),
     DrumHit(2, L - Micro(1), Micro(500000), 0)}

RECURSIVE SeqsUpTo(_, _)
SeqsUpTo(S, n) ==
    IF n = 0 THEN {<<>>}
    ELSE LET shorter == SeqsUpTo(S, n - 1)
         IN shorter \cup {Append(q, x) : q \in {z \in shorter : Len(z) = n - 1}, x \in S}

\* delta_time as the recorder writes it: time to the next later hit, or to loop end.
WithDeltas(hits, L) ==
    [i \in 1..Len(hits) |->
        LET later == {hits[j].timestamp : j \in {k \in 1..Len(hits) :
                                                   hits[k].timestamp > hits[i].timestamp}}
            next == IF later = {} THEN L
                    ELSE CHOOSE t \in later : \A u \in later : t <= u
        IN [hits[i] EXCEPT !.delta_time = next - hits[i].timestamp]]

Patterns(n) ==
    UNION {{DrumPattern(WithDeltas(h, L), L) : h \in SeqsUpTo(HitPool(L), n)} :
              L \in LoopDurations}

\* Lines a backend reply can hold for a pattern of duration L: a hit inside the
\* loop, a hit that breaks every range, and a line that does not parse.  The
\* delta_time of either hit is the backend's own and fits no timestamp.
ReplyLines(L) ==
    {ReplyLine(TRUE, 1, L \div 2, Micro(500000), Micro(7000000)),
     ReplyLine(TRUE, 7, L + Micro(250000), Micro(1500000), Micro(-1000000)),
     ReplyLine(FALSE, 0, 0, 0, 0)}

Replies(L) ==
    {[kind |-> k, lines |-> <<>>, duration |-> 0] : k \in ReplyKinds \ {"ok"}}
    \cup {[kind |-> "ok", lines |-> ls, duration |-> L + Sec] :
             ls \in SeqsUpTo(ReplyLines(L), MaxReplyLines)}

NoReply == [kind |-> None, lines |-> <<>>, duration |-> 0]

-----------------------------------------------------------------------------
(* The pattern pipeline: generate_variation, then to_file *)

NoPattern == DrumPattern(<<>>, 0)
NoText == [exists |-> FALSE, duration |-> 0, lines |-> <<>>]
Text(t) == [exists |-> TRUE, duration |-> t.duration, lines |-> t.lines]

\* Object identity.  The caller holds one DrumPattern; DrumPattern(...) makes an
\* object that did not exist before.
NoObject == 0
CALLER == 1
NewObject(o) == o + 1

\* pattern.copy(), the first statement of every transform: a new DrumPattern
\* with new DrumHit objects, so that what the transform then writes, it writes
\* to the copy.
SameObject(o) == o
CopyOf(o) == NewObject(o)

\* Whether generate_variation returns what parse_gemini_pattern built (and so
\* made no copy of the caller's pattern at all).
FromBackend(p, t, have, key, r) ==
    /\ CallsBackend(t, have, key)
    /\ r.kind = "ok"
    /\ parse_gemini_pattern(r.lines, p.loop_duration).hits # <<>>

\* The caller's pattern after a call that worked in place on object `id` and
\* left it holding `v`.
CallerAfter(id, v) == IF id = CALLER THEN v ELSE pattern

ProgOff ==
    /\ mode = "none"
    /\ fs = <<>>
    /\ dirs = {}
    /\ sent = <<>>
    /\ thr = <<>>
    /\ watcher = <<>>
    /\ events = <<>>
    /\ clock = 0
    /\ budget = <<>>
    /\ mainp = <<>>
    /\ osc_client = FALSE
    /\ current_spice_level = 50

InitGen ==
    /\ pattern \in Patterns(MaxHits)
    /\ vtype = None
    /\ varied = NoPattern
    /\ saved = NoText
    /\ stage = "loaded"
    /\ reply = NoReply
    /\ result_id = NoObject
    /\ HAVE_GEMINI \in BOOLEAN
    /\ GEMINI_API_KEY \in BOOLEAN
    /\ ProgOff

\* varied = generate_variation(pattern, variation_type, temperature=...)
GenerateVariation(t, r) ==
    /\ stage = "loaded"
    /\ t = "random" => Len(pattern.hits) <= MaxHitsRandom
    /\ \E v \in generate_variation(pattern, t, current_spice_level,
                                   HAVE_GEMINI, GEMINI_API_KEY, r) :
          LET id == IF v = Raised THEN NoObject
                    ELSE IF FromBackend(pattern, t, HAVE_GEMINI, GEMINI_API_KEY, r)
                         THEN NewObject(CALLER)
                    ELSE CopyOf(CALLER)
          IN /\ varied' = (IF v = Raised THEN NoPattern ELSE v)
             /\ stage' = (IF v = Raised THEN "raised" ELSE "generated")
             /\ result_id' = id
             /\ pattern' = CallerAfter(id, v)
    /\ vtype' = t
    /\ reply' = r
    /\ UNCHANGED <<saved, HAVE_GEMINI, GEMINI_API_KEY, current_spice_level,
                   osc_client, progVars>>

\* varied.to_file(output_file)
SaveVariation ==
    /\ stage = "generated"
    /\ LET w == to_file(varied)
       IN /\ varied' = w.self
          /\ saved' = Text(w.text)
    /\ stage' = "saved"
    /\ UNCHANGED <<pattern, vtype, reply, result_id, HAVE_GEMINI, GEMINI_API_KEY,
                   current_spice_level, osc_client, progVars>>

\* The replies the call of generate_variation(pattern, t) can meet.
RepliesFor(t) ==
    IF CallsBackend(t, HAVE_GEMINI, GEMINI_API_KEY)
    THEN Replies(pattern.loop_duration) ELSE {NoReply}

NextGen ==
    \/ \E t \in VariationTypes : \E r \in RepliesFor(t) : GenerateVariation(t, r)
    \/ SaveVariation

SpecGen == InitGen /\ [][NextGen]_vars

\* The pipeline on recorded patterns only, as the controller hands them on: at
\* least one hit, a one-second loop, hits in time order starting at 0, so that the
\* delta_time values of the input add up to its loop_duration.
InitRecorded ==
    /\ InitGen
    /\ pattern.loop_duration = Sec
    /\ pattern.hits # <<>>
    /\ pattern.hits[1].timestamp = 0
    /\ pattern.hits = SortHits(pattern.hits)

SpecRecorded == InitRecorded /\ [][NextGen]_vars

\* The pipeline with the strategies that end in gemini_variation only.
NextGemini ==
    \/ \E t \in {"gemini", "unknown"} : \E r \in RepliesFor(t) : GenerateVariation(t, r)
    \/ SaveVariation

SpecGemini == InitGen /\ [][NextGemini]_vars

\* humanize_pattern on its own, with the default jitter and with a jitter wider
\* than the loop.
TimingVariances == {HUMANIZE_TIMING, Micro(4000000)}
VelocityVariances == {HUMANIZE_VELOCITY, Micro(4000000)}

\* varied = humanize_pattern(pattern, timing_variance, velocity_variance)
Humanize(timing_variance, velocity_variance) ==
    /\ stage = "loaded"
    /\ varied' \in humanize_pattern(pattern, timing_variance, velocity_variance)
    /\ result_id' = CopyOf(CALLER)
    /\ pattern' = CallerAfter(result_id', varied')
    /\ vtype' = "humanize"
    /\ stage' = "generated"
    /\ UNCHANGED <<saved, reply, HAVE_GEMINI, GEMINI_API_KEY,
                   current_spice_level, osc_client, progVars>>

NextHumanize ==
    \E tv \in TimingVariances : \E vv \in VelocityVariances : Humanize(tv, vv)

SpecHumanize == InitGen /\ [][NextHumanize]_vars

\* shift_pattern on its own: no amount given, and amounts of either sign, within
\* the one-second loop and beyond it.
ShiftAmounts ==
    {NoAmount} \cup {Amount(a) : a \in {Micro(250000), -Micro(250000),
                                         Micro(2500000), -Micro(2500000)}}

\* varied = shift_pattern(pattern, shift_amount)
Shift(shift_amount) ==
    /\ stage = "loaded"
    /\ varied' \in shift_pattern(pattern, shift_amount)
    /\ result_id' = CopyOf(CALLER)
    /\ pattern' = CallerAfter(result_id', varied')
    /\ vtype' = "shift"
    /\ stage' = "generated"
    /\ UNCHANGED <<saved, reply, HAVE_GEMINI, GEMINI_API_KEY,
                   current_spice_level, osc_client, progVars>>

NextShift == \E S \in ShiftAmounts : Shift(S)

SpecShift == InitGen /\ [][NextShift]_vars

\* The round trip through a file: pattern.to_file(f), then from_file(f).
\* Timestamps and velocities lie on the six-decimal grid; loop_duration is any
\* float: none, shorter than the clamp margin, one second, and a value between
\* two printable ones (as the sum timestamp + delta_time of from_file can be).
RoundTripDurations == {0, Micro(8000), Sec, Sec + 1}
RoundTripHits ==
    {DrumHit(0, 0, VelOne, 0),
     DrumHit(1, Micro(250000), Micro(333333), Micro(7000000)),
     DrumHit(2, Micro(999999), VelFloor, 0)}

InitRoundTrip ==
    /\ pattern \in {DrumPattern(h, L) : h \in SeqsUpTo(RoundTripHits, MaxHits),
                                        L \in RoundTripDurations}
    /\ vtype = None
    /\ varied = NoPattern
    /\ saved = NoText
    /\ stage = "loaded"
    /\ reply = NoReply
    /\ result_id = NoObject
    /\ HAVE_GEMINI = FALSE
    /\ GEMINI_API_KEY = FALSE
    /\ ProgOff

\* pattern.to_file(f): sorts the hits of the object and recomputes delta_time.
SavePattern ==
    /\ stage = "loaded"
    /\ LET w == to_file(pattern)
       IN /\ pattern' = w.self
          /\ saved' = Text(w.text)
    /\ stage' = "saved"
    /\ UNCHANGED <<vtype, varied, reply, result_id, HAVE_GEMINI, GEMINI_API_KEY,
                   current_spice_level, osc_client, progVars>>

\* varied = DrumPattern.from_file(f)
LoadSaved ==
    /\ stage = "saved"
    /\ varied' = from_file(saved)
    /\ stage' = "reloaded"
    /\ UNCHANGED <<pattern, vtype, saved, reply, result_id, HAVE_GEMINI, GEMINI_API_KEY,
                   current_spice_level, osc_client, progVars>>

NextRoundTrip == SavePattern \/ LoadSaved

SpecRoundTrip == InitRoundTrip /\ [][NextRoundTrip]_vars

-----------------------------------------------------------------------------
(* The running program *)

NumHandlers == 2        \* OSC handler threads alive at once
MaxMessages == 2        \* datagrams the instrument sends
MaxMessagesAuto == 1    \* the same, beside an observer that generates
MaxEvents == 1          \* file events the watcher is given
MaxTicks == 1           \* clock ticks (of half a second) that pass
MaxEventsWatch == 2     \* file events, where only the watcher is followed
MaxTicksWatch == 5      \* clock ticks, where only the watcher is followed
MaxMessagesBurst == 3   \* datagrams, where only the listener is followed

Cooldown == 4           \* cooldown = 2.0 s, in ticks
SleepTicks == 1         \* time.sleep(0.5), in ticks

W == 0                                  \* the watchdog observer thread
Handlers == 1..NumHandlers              \* threads of ThreadingOSCUDPServer
Workers == {W} \cup Handlers

SRC == "track_0_drums.txt"
VAR == "variations/track_0_drums_var1.txt"
BACKUP == "track_0_drums.txt.backup"
Paths == {SRC, VAR, BACKUP}
VARDIR == "variations"

\* output_file of a generation run.
OverwriteSource == SRC
output_file == VAR

MAIN == -1                              \* the main thread
Senders == {MAIN} \cup Workers

\* Outbound OSC messages: "if osc_client: osc_client.send_message(addr, arg)".
Msg(addr, arg) == [addr |-> addr, arg |-> arg]
ReadyCountThree == 1 + 2
ReadyCount == 1
Send(w, addr, arg) ==
    IF osc_client THEN [sent EXCEPT ![w] = Append(@, Msg(addr, arg))] ELSE sent

\* Inbound OSC messages.
SpiceInputs == {-20, 30, 130}       \* percent; the instrument may send anything
Inbound ==
    {[addr |-> "spice", arg |-> l] : l \in SpiceInputs}
    \cup {[addr |-> "regenerate", arg |-> 0], [addr |-> "track_cleared", arg |-> 0]}

\* max(0.0, min(1.0, spice_level))
Unclamped(level) == level
ClampSpice(level) == Max(0, Min(100, level))

\* track_file.exists()
AlwaysExists(f) == TRUE
Exists(f) == f.exists

\* Source files of the running program: no hits, or one kick at the loop start.
SourcePatterns ==
    {DrumPattern(<<>>, Sec), DrumPattern(WithDeltas(<<DrumHit(0, 0, VelOne, 0)>>, Sec), Sec)}
SourceTexts == {Text(FileText(q)) : q \in SourcePatterns}

\* open(filepath, 'w'): the file exists and is empty.
Truncated == [exists |-> TRUE, duration |-> 0, lines |-> <<>>]

\* The file after `text` is written from offset 0 over what is there: records are
\* of one length, so a longer earlier content keeps its tail.
Overlay(old, text) ==
    [exists |-> TRUE, duration |-> text.duration,
     lines |-> text.lines \o SubSeq(old.lines, Len(text.lines) + 1, Len(old.lines))]

IdleWorker ==
    [pc |-> "idle", msg |-> [addr |-> None, arg |-> 0], vt |-> None,
     pattern |-> NoPattern, varied |-> NoPattern, temp |-> -1, wrote |-> 0,
     overlapped |-> 0]

GenOff ==
    /\ pattern = NoPattern
    /\ vtype = None
    /\ varied = NoPattern
    /\ saved = NoText
    /\ stage = "off"
    /\ reply = NoReply
    /\ result_id = NoObject

\* Variation types the program is started with.
StartTypes == {"gemini", "simplify"}

\* watch mode: watch_directory has set up the client, the server and the observer.
InitWatch(auto_generate) ==
    /\ mode = "watch"
    /\ osc_client = TRUE
    /\ watcher \in {[variation_type |-> vt, auto_generate |-> auto_generate,
                     last_modified |-> 0, wake |-> 0] : vt \in StartTypes}
    /\ mainp = [pc |-> "off", vt |-> None, backup |-> FALSE, kw_temperature |-> FALSE,
                pattern |-> NoPattern, varied |-> NoPattern]
    /\ sent = [w \in Senders |-> IF w = MAIN THEN <<Msg("generation_progress", "test")>>
                                 ELSE <<>>]

\* manual mode: main, or a caller, is about to run generate_variation_for_file.
InitManual ==
    /\ mode = "manual"
    /\ osc_client = FALSE
    /\ watcher = [variation_type |-> None, auto_generate |-> FALSE, last_modified |-> 0,
                  wake |-> 0]
    /\ mainp \in {[pc |-> "start", vt |-> vt, backup |-> b, kw_temperature |-> k,
                   pattern |-> NoPattern, varied |-> NoPattern] :
                     vt \in StartTypes, b \in BOOLEAN, k \in BOOLEAN}
    /\ sent = [w \in Senders |-> <<>>]

Started(msgs, evs, ticks) ==
    /\ GenOff
    /\ HAVE_GEMINI \in BOOLEAN
    /\ GEMINI_API_KEY \in BOOLEAN
    /\ current_spice_level = 50
    /\ fs \in [Paths -> {NoText} \cup SourceTexts]
    /\ fs[VAR] = NoText /\ fs[BACKUP] = NoText
    /\ dirs = {}
    /\ thr = [w \in Workers |-> IdleWorker]
    /\ events = <<>>
    /\ clock = Cooldown
    /\ budget = [msgs |-> msgs, events |-> evs, ticks |-> ticks]

\* The program as main starts it: watch_directory builds its handler with
\* auto_generate=False.
Init == Started(MaxMessages, MaxEvents, MaxTicks) /\ (InitWatch(FALSE) \/ InitManual)

\* The program around a DrumFileHandler built with its default, auto_generate=True.
InitAuto == Started(MaxMessagesAuto, MaxEvents, MaxTicks) /\ InitWatch(TRUE)

-----------------------------------------------------------------------------
(* OSC handlers *)

Set(w, rec) == [thr EXCEPT ![w] = rec]
Finish(w) == Set(w, IdleWorker)

\* A worker is inside generate_variations_for_track: loading, dispatching, waiting
\* for the backend, writing the variation file, or notifying.
InFlight(w) ==
    thr[w].pc \in {"load", "generate", "backend", "save", "write", "ready", "complete"}

\* Worker w enters generate_variations_for_track.  `overlapped` is history, not
\* program state: each run counts the runs of other workers begun during it.
StartRun(w, variation_type) ==
    [u \in Workers |->
        IF u = w THEN [thr[w] EXCEPT !.pc = "load", !.vt = variation_type]
        ELSE IF InFlight(u) THEN [thr[u] EXCEPT !.overlapped = @ + 1]
        ELSE thr[u]]

\* ThreadingOSCUDPServer: a datagram arrives and a thread is started for it.  The
\* threads are interchangeable; the new one takes the lowest free number.
Receive(t, m) ==
    /\ mode = "watch"
    /\ thr[t].pc = "idle"
    /\ \A u \in Handlers : u < t => thr[u].pc # "idle"
    /\ budget.msgs > 0
    /\ budget' = [budget EXCEPT !.msgs = @ - 1]
    /\ thr' = Set(t, [IdleWorker EXCEPT !.pc = m.addr, !.msg = m])
    /\ sent' = [sent EXCEPT ![t] = <<>>]
    /\ UNCHANGED <<genVars, HAVE_GEMINI, GEMINI_API_KEY, current_spice_level, osc_client,
                   mode, fs, dirs, watcher, events, clock, mainp>>

\* handle_spice_change
handle_spice_change(t) ==
    /\ thr[t].pc = "spice"
    /\ current_spice_level' = ClampSpice(thr[t].msg.arg)
    /\ thr' = Finish(t)
    /\ UNCHANGED <<genVars, HAVE_GEMINI, GEMINI_API_KEY, osc_client,
                   mode, fs, dirs, sent, watcher, events, clock, budget, mainp>>

\* handle_track_cleared
handle_track_cleared(t) ==
    /\ thr[t].pc = "track_cleared"
    /\ thr' = Finish(t)
    /\ UNCHANGED <<genVars, HAVE_GEMINI, GEMINI_API_KEY, current_spice_level, osc_client,
                   mode, fs, dirs, sent, watcher, events, clock, budget, mainp>>

\* generate_variations_for_track(track_file, variation_type='gemini'): the
\* strategy of a requested generation is written into the handler.
ConfiguredType == watcher.variation_type
RegenerateType == "gemini"

\* handle_regenerate, up to the call of generate_variations_for_track
handle_regenerate(t) ==
    /\ thr[t].pc = "regenerate"
    /\ IF ~Exists(fs[SRC])
       THEN /\ sent' = Send(t, "error", "not found")
            /\ thr' = Finish(t)
       ELSE /\ thr' = StartRun(t, RegenerateType)
            /\ sent' = sent
    /\ UNCHANGED <<genVars, HAVE_GEMINI, GEMINI_API_KEY, current_spice_level, osc_client,
                   mode, fs, dirs, watcher, events, clock, budget, mainp>>

-----------------------------------------------------------------------------
(* generate_variations_for_track, run by an OSC handler thread or by the observer
   thread.  An exception leaves it for the caller's "except Exception". *)

\* "if not pattern.hits:"
NeverEmpty(q) == FALSE
NoHits(q) == q.hits = <<>>

\* from_file, the empty check, mkdir, and the 'Generating' progress message.
LoadPattern(w) ==
    /\ thr[w].pc = "load"
    /\ \/ /\ thr' = Set(w, [thr[w] EXCEPT !.pc = "except"])    \* open or mkdir raised
          /\ UNCHANGED <<sent, dirs>>
       \/ /\ Exists(fs[SRC])
          /\ LET q == from_file(fs[SRC])
             IN IF NoHits(q)
                THEN /\ sent' = Send(w, "error", "no hits")
                     /\ thr' = Finish(w)
                     /\ dirs' = dirs
                ELSE /\ dirs' = dirs \cup {VARDIR}
                     /\ sent' = Send(w, "generation_progress", "Generating")
                     /\ thr' = Set(w, [thr[w] EXCEPT !.pc = "generate", !.pattern = q])
    /\ UNCHANGED <<genVars, HAVE_GEMINI, GEMINI_API_KEY, current_spice_level, osc_client,
                   mode, fs, watcher, events, clock, budget, mainp>>

\* generate_variation(pattern, variation_type, temperature=current_spice_level):
\* the call, up to its return or to the request sent to the backend.
Dispatch(w) ==
    /\ thr[w].pc = "generate"
    /\ IF CallsBackend(thr[w].vt, HAVE_GEMINI, GEMINI_API_KEY)
       THEN thr' = Set(w, [thr[w] EXCEPT !.pc = "backend", !.temp = current_spice_level])
       ELSE \E v \in generate_variation(thr[w].pattern, thr[w].vt, current_spice_level,
                                        HAVE_GEMINI, GEMINI_API_KEY, NoReply) :
               thr' = Set(w, [thr[w] EXCEPT !.pc = IF v = Raised THEN "except" ELSE "save",
                                            !.varied = IF v = Raised THEN NoPattern ELSE v,
                                            !.temp = current_spice_level])
    /\ UNCHANGED <<genVars, HAVE_GEMINI, GEMINI_API_KEY, current_spice_level, osc_client,
                   mode, fs, dirs, sent, watcher, events, clock, budget, mainp>>

\* client.models.generate_content returns or raises, and gemini_variation returns.
BackendReturn(w, r) ==
    /\ thr[w].pc = "backend"
    /\ \E v \in generate_variation(thr[w].pattern, thr[w].vt, thr[w].temp,
                                   HAVE_GEMINI, GEMINI_API_KEY, r) :
          thr' = Set(w, [thr[w] EXCEPT !.pc = IF v = Raised THEN "except" ELSE "save",
                                       !.varied = IF v = Raised THEN NoPattern ELSE v])
    /\ UNCHANGED <<genVars, HAVE_GEMINI, GEMINI_API_KEY, current_spice_level, osc_client,
                   mode, fs, dirs, sent, watcher, events, clock, budget, mainp>>

\* varied.to_file(output_file): delta_times recomputed, the file opened for writing.
OpenOutput(w) ==
    /\ thr[w].pc = "save"
    /\ \/ /\ thr' = Set(w, [thr[w] EXCEPT !.pc = "except",
                                          !.varied = to_file(thr[w].varied).self])
          /\ fs' = fs                                           \* open raised
       \/ /\ thr' = Set(w, [thr[w] EXCEPT !.pc = "write",
                                          !.varied = to_file(thr[w].varied).self])
          /\ fs' = [fs EXCEPT ![output_file] = Truncated]
    /\ UNCHANGED <<genVars, HAVE_GEMINI, GEMINI_API_KEY, current_spice_level, osc_client,
                   mode, dirs, sent, watcher, events, clock, budget, mainp>>

\* to_file: the header and the records are written and the file is closed.
WriteOutput(w) ==
    /\ thr[w].pc = "write"
    /\ fs' = [fs EXCEPT ![output_file] = Overlay(@, FileText(thr[w].varied))]
    /\ thr' = Set(w, [thr[w] EXCEPT !.pc = "ready", !.wrote = @ + 1])
    /\ UNCHANGED <<genVars, HAVE_GEMINI, GEMINI_API_KEY, current_spice_level, osc_client,
                   mode, dirs, sent, watcher, events, clock, budget, mainp>>

\* osc_client.send_message("/chuloopa/variations_ready", 1)
SendReady(w) ==
    /\ thr[w].pc = "ready"
    /\ sent' = Send(w, "variations_ready", ReadyCount)
    /\ thr' = Set(w, [thr[w] EXCEPT !.pc = "complete"])
    /\ UNCHANGED <<genVars, HAVE_GEMINI, GEMINI_API_KEY, current_spice_level, osc_client,
                   mode, fs, dirs, watcher, events, clock, budget, mainp>>

\* osc_client.send_message("/chuloopa/generation_progress", "Complete!"), and return
SendComplete(w) ==
    /\ thr[w].pc = "complete"
    /\ sent' = Send(w, "generation_progress", "Complete!")
    /\ thr' = Finish(w)
    /\ UNCHANGED <<genVars, HAVE_GEMINI, GEMINI_API_KEY, current_spice_level, osc_client,
                   mode, fs, dirs, watcher, events, clock, budget, mainp>>

\* The exception leaves the handler and takes the program down with it.
ExceptionEscapes(w) ==
    /\ thr[w].pc = "except"
    /\ mode' = "crashed"
    /\ UNCHANGED <<genVars, HAVE_GEMINI, GEMINI_API_KEY, current_spice_level, osc_client,
                   fs, dirs, sent, thr, watcher, events, clock, budget, mainp>>

SwallowException(w) ==
    /\ thr[w].pc = "except"
    /\ thr' = Finish(w)
    /\ UNCHANGED <<genVars, HAVE_GEMINI, GEMINI_API_KEY, current_spice_level, osc_client,
                   mode, fs, dirs, sent, watcher, events, clock, budget, mainp>>

\* except Exception as e: ... send_message("/chuloopa/error", error_msg)
HandleException(w) ==
    /\ thr[w].pc = "except"
    /\ sent' = Send(w, "error", "generating")
    /\ thr' = Finish(w)
    /\ UNCHANGED <<genVars, HAVE_GEMINI, GEMINI_API_KEY, current_spice_level, osc_client,
                   mode, fs, dirs, watcher, events, clock, budget, mainp>>

-----------------------------------------------------------------------------
(* File watching *)

\* "src": the track file; "other": a directory, another name, the variations folder.
EventKinds == {"src", "other"}

\* A file event, with the time the file system raised it.
Event(k) == [kind |-> k, at |-> clock]

\* The instrument rewrites the track file; the observer is told.
ExternalWrite(text) ==
    /\ mode = "watch"
    /\ budget.events > 0
    /\ budget' = [budget EXCEPT !.events = @ - 1]
    /\ fs' = [fs EXCEPT ![SRC] = text]
    /\ events' = Append(events, Event("src"))
    /\ UNCHANGED <<genVars, HAVE_GEMINI, GEMINI_API_KEY, current_spice_level, osc_client,
                   mode, dirs, sent, thr, watcher, clock, mainp>>

\* Something else in the directory changes: a subdirectory, or another file.
OtherEvent(k) ==
    /\ mode = "watch"
    /\ k \in EventKinds \ {"src"}
    /\ budget.events > 0
    /\ budget' = [budget EXCEPT !.events = @ - 1]
    /\ events' = Append(events, Event(k))
    /\ UNCHANGED <<genVars, HAVE_GEMINI, GEMINI_API_KEY, current_spice_level, osc_client,
                   mode, fs, dirs, sent, thr, watcher, clock, mainp>>

\* Half a second passes.  The observer thread takes a queued event, wakes from
\* its sleep and runs its local steps well within that; time passes while it
\* has nothing to do, sleeps, or waits for the backend, and events wait with it.
Tick ==
    /\ mode = "watch"
    /\ \/ thr[W].pc = "idle" /\ events = <<>>
       \/ thr[W].pc = "sleep" /\ clock < watcher.wake
       \/ thr[W].pc = "backend"
    /\ budget.ticks > 0
    /\ budget' = [budget EXCEPT !.ticks = @ - 1]
    /\ clock' = clock + 1
    /\ UNCHANGED <<genVars, HAVE_GEMINI, GEMINI_API_KEY, current_spice_level, osc_client,
                   mode, fs, dirs, sent, thr, watcher, events, mainp>>

\* "if self.auto_generate:"
AlwaysGenerates(h) == TRUE
AutoGenerates(h) == h.auto_generate

\* DrumFileHandler.on_modified, up to time.sleep(0.5)
on_modified ==
    /\ thr[W].pc = "idle"
    /\ events # <<>>
    /\ events' = Tail(events)
    /\ IF Head(events).kind # "src"
       THEN UNCHANGED <<watcher, thr, sent>>     \* a directory, or another name
       ELSE IF clock - watcher.last_modified < Cooldown
       THEN UNCHANGED <<watcher, thr, sent>>
       ELSE /\ watcher' = [watcher EXCEPT !.last_modified = clock,
                                          !.wake = clock + SleepTicks]
            /\ thr' = IF AutoGenerates(watcher)
                      THEN Set(W, [thr[W] EXCEPT !.pc = "sleep"])
                      ELSE thr
            /\ sent' = [sent EXCEPT ![W] = <<>>]
    /\ UNCHANGED <<genVars, HAVE_GEMINI, GEMINI_API_KEY, current_spice_level, osc_client,
                   mode, fs, dirs, clock, budget, mainp>>

\* on_modified after time.sleep(0.5): generate_variations_for_track is called.
AfterSleep ==
    /\ thr[W].pc = "sleep"
    /\ clock >= watcher.wake
    /\ thr' = StartRun(W, watcher.variation_type)
    /\ UNCHANGED <<genVars, HAVE_GEMINI, GEMINI_API_KEY, current_spice_level, osc_client,
                   mode, fs, dirs, sent, watcher, events, clock, budget, mainp>>

-----------------------------------------------------------------------------
(* Manual mode: main and generate_variation_for_file *)

\* main: os.path.exists(filepath), then the call with kwargs = {'temperature': ...};
\* a direct caller passes no keyword arguments and makes no check.
ManualStart ==
    /\ mode = "manual"
    /\ mainp.pc = "start"
    /\ mainp' = [mainp EXCEPT !.pc = IF mainp.kw_temperature /\ ~Exists(fs[SRC])
                                     THEN "exit_not_found" ELSE "gvf_load"]
    /\ UNCHANGED <<genVars, HAVE_GEMINI, GEMINI_API_KEY, current_spice_level, osc_client,
                   mode, fs, dirs, sent, thr, watcher, events, clock, budget>>

\* from_file, the empty check, the optional backup, mkdir
ManualLoad ==
    /\ mainp.pc = "gvf_load"
    /\ \/ /\ mainp' = [mainp EXCEPT !.pc = "returned_false"]    \* an I/O call raised
          /\ UNCHANGED <<fs, dirs>>
       \/ /\ Exists(fs[SRC])
          /\ LET q == from_file(fs[SRC])
                 b == to_file(q)
             IN IF NoHits(q)
                THEN /\ mainp' = [mainp EXCEPT !.pc = "returned_false"]
                     /\ UNCHANGED <<fs, dirs>>
                ELSE /\ mainp' = [mainp EXCEPT !.pc = "gvf_generate",
                                     !.pattern = IF mainp.backup THEN b.self ELSE q]
                     /\ fs' = IF mainp.backup
                              THEN [fs EXCEPT ![BACKUP] = Text(b.text)] ELSE fs
                     /\ dirs' = dirs \cup {VARDIR}
    /\ UNCHANGED <<genVars, HAVE_GEMINI, GEMINI_API_KEY, current_spice_level, osc_client,
                   mode, sent, thr, watcher, events, clock, budget>>

\* generate_variation(pattern, variation_type, temperature=current_spice_level, **kwargs):
\* with 'temperature' in kwargs too the call is a TypeError.
ManualGenerate(r) ==
    /\ mainp.pc = "gvf_generate"
    /\ IF mainp.kw_temperature
       THEN mainp' = [mainp EXCEPT !.pc = "returned_false"]
       ELSE \E v \in generate_variation(mainp.pattern, mainp.vt, current_spice_level,
                                        HAVE_GEMINI, GEMINI_API_KEY, r) :
               mainp' = [mainp EXCEPT !.pc = IF v = Raised THEN "returned_false"
                                             ELSE "gvf_save",
                                      !.varied = IF v = Raised THEN NoPattern ELSE v]
    /\ UNCHANGED <<genVars, HAVE_GEMINI, GEMINI_API_KEY, current_spice_level, osc_client,
                   mode, fs, dirs, sent, thr, watcher, events, clock, budget>>

\* varied.to_file(output_file), return True
ManualSave ==
    /\ mainp.pc = "gvf_save"
    /\ LET o == to_file(mainp.varied)
       IN \/ /\ mainp' = [mainp EXCEPT !.pc = "returned_false", !.varied = o.self]
             /\ fs' = fs                                        \* open raised
          \/ /\ mainp' = [mainp EXCEPT !.pc = "returned_true", !.varied = o.self]
             /\ fs' = [fs EXCEPT ![output_file] = Text(o.text)]
    /\ UNCHANGED <<genVars, HAVE_GEMINI, GEMINI_API_KEY, current_spice_level, osc_client,
                   mode, dirs, sent, thr, watcher, events, clock, budget>>

-----------------------------------------------------------------------------
(* Specifications of the running program *)

ManualReplies ==
    IF CallsBackend(mainp.vt, HAVE_GEMINI, GEMINI_API_KEY) /\ ~mainp.kw_temperature
    THEN Replies(mainp.pattern.loop_duration) ELSE {NoReply}

NextWatch ==
    \/ \E t \in Handlers : \E m \in Inbound : Receive(t, m)
    \/ \E t \in Handlers : handle_spice_change(t)
    \/ \E t \in Handlers : handle_track_cleared(t)
    \/ \E t \in Handlers : handle_regenerate(t)
    \/ \E w \in Workers : LoadPattern(w)
    \/ \E w \in Workers : Dispatch(w)
    \/ \E w \in Workers : \E r \in Replies(thr[w].pattern.loop_duration) : BackendReturn(w, r)
    \/ \E w \in Workers : OpenOutput(w)
    \/ \E w \in Workers : WriteOutput(w)
    \/ \E w \in Workers : SendReady(w)
    \/ \E w \in Workers : SendComplete(w)
    \/ \E w \in Workers : HandleException(w)
    \/ \E text \in SourceTexts : ExternalWrite(text)
    \/ \E k \in EventKinds : OtherEvent(k)
    \/ Tick
    \/ on_modified

NextManual ==
    \/ ManualStart
    \/ ManualLoad
    \/ \E r \in ManualReplies : ManualGenerate(r)
    \/ ManualSave

Next == NextWatch \/ NextManual

Spec == Init /\ [][Next]_vars

NextAuto == NextWatch \/ AfterSleep

SpecAuto == InitAuto /\ [][NextAuto]_vars

\* Every way a generation run is started: control channel, file change, manual.
SpecAll == (Init \/ InitAuto) /\ [][Next \/ AfterSleep]_vars

\* The file watcher alone, in either mode, over a longer time and with no control
\* messages: the observer thread, its events and the runs it starts.
InitWatcher ==
    Started(0, MaxEventsWatch, MaxTicksWatch) /\ (InitWatch(TRUE) \/ InitWatch(FALSE))

NextWatcher ==
    \/ \E text \in SourceTexts : ExternalWrite(text)
    \/ \E k \in EventKinds : OtherEvent(k)
    \/ Tick
    \/ on_modified
    \/ AfterSleep
    \/ LoadPattern(W)
    \/ Dispatch(W)
    \/ \E r \in Replies(thr[W].pattern.loop_duration) : BackendReturn(W, r)
    \/ OpenOutput(W)
    \/ WriteOutput(W)
    \/ SendReady(W)
    \/ SendComplete(W)
    \/ HandleException(W)

SpecWatcher == InitWatcher /\ [][NextWatcher]_vars

\* The control-message listener alone, with fair scheduling: a handler thread that
\* can take a step of its own eventually takes it.  No fairness is assumed of
\* the backend: BackendReturn is the backend's step, not the thread's.
InitServe ==
    /\ Started(MaxMessages, MaxEvents, 0) /\ InitWatch(FALSE)
    /\ watcher.variation_type = "gemini"

\* One message of each address.
InboundServe == {m \in Inbound : m.addr = "spice" => m.arg > 100}

HandlerStep(t) ==
    \/ handle_spice_change(t)
    \/ handle_track_cleared(t)
    \/ handle_regenerate(t)
    \/ LoadPattern(t)
    \/ Dispatch(t)
    \/ OpenOutput(t)
    \/ WriteOutput(t)
    \/ SendReady(t)
    \/ SendComplete(t)
    \/ HandleException(t)

NextServe ==
    \/ \E t \in Handlers : \E m \in InboundServe : Receive(t, m)
    \/ \E t \in Handlers : HandlerStep(t)
    \/ \E t \in Handlers : \E r \in Replies(thr[t].pattern.loop_duration) : BackendReturn(t, r)
    \/ \E text \in SourceTexts : ExternalWrite(text)

SpecServe ==
    InitServe /\ [][NextServe]_vars /\ \A t \in Handlers : WF_vars(HandlerStep(t))

\* The control-message listener under a burst of messages: more datagrams than
\* handler threads followed at once, no file events, no clock.
InitBurst ==
    /\ Started(MaxMessagesBurst, 0, 0) /\ InitWatch(FALSE)
    /\ watcher.variation_type = "gemini"

NextBurst ==
    \/ \E t \in Handlers : \E m \in InboundServe : Receive(t, m)
    \/ \E t \in Handlers : HandlerStep(t)
    \/ \E t \in Handlers : \E r \in Replies(thr[t].pattern.loop_duration) : BackendReturn(t, r)

SpecBurst == InitBurst /\ [][NextBurst]_vars

-----------------------------------------------------------------------------
(* Properties of the pattern pipeline *)

RECURSIVE SumDeltaTimes(_)
SumDeltaTimes(hits) ==
    IF hits = <<>> THEN 0 ELSE Head(hits).delta_time + SumDeltaTimes(Tail(hits))

\* C2: duration invariance.  For every strategy and every non-empty pattern P, after
\* the save step has sorted the hits and recomputed delta_time, the delta_time
\* values add up to P.loop_duration (to within a microsecond).
C2_DurationInvariance ==
    (stage = "saved" /\ pattern.hits # <<>>)
        => Abs(SumDeltaTimes(varied.hits) - pattern.loop_duration) <= Micro(1)

\* The backend was not asked, failed, or answered nothing that parses into a hit.
FellBack ==
    \/ ~HAVE_GEMINI
    \/ ~GEMINI_API_KEY
    \/ reply.kind \in {"raise", "bad_json", "no_pattern"}
    \/ reply.kind = "ok" /\ ParsedHits(reply.lines) = <<>>

C4_UsableResult ==
    (stage \in {"generated", "saved"} /\ pattern.hits # <<>>) => varied.hits # <<>>

\* The backend's reply was accepted as the variation.
Accepted ==
    /\ vtype \in {"gemini", "unknown"}
    /\ HAVE_GEMINI /\ GEMINI_API_KEY
    /\ reply.kind = "ok" /\ ParsedHits(reply.lines) # <<>>

\* C5: for every accepted reply the returned pattern has the input's loop_duration,
\* and each record of the variation file carries the delta_time computed from the
\* sorted timestamps and that duration (next timestamp minus own; for the last hit
\* loop_duration minus own), whatever the reply said.
C5_DurationForcedDeltasRecomputed ==
    (Accepted /\ stage \in {"generated", "saved"})
        => /\ varied.loop_duration = pattern.loop_duration
           /\ stage = "saved" =>
                LET s == SortHits(ParsedHits(reply.lines))
                    n == Len(s)
                IN /\ saved.duration = Fmt6(pattern.loop_duration)
                   /\ Len(saved.lines) = n
                   /\ \A i \in 1..n :
                        /\ saved.lines[i].timestamp = Fmt6(s[i].timestamp)
                        /\ saved.lines[i].delta_time =
                             Fmt6((IF i < n THEN s[i + 1].timestamp
                                   ELSE pattern.loop_duration) - s[i].timestamp)

\* C5 witness: an accepted two-hit reply has been written, and no record carries
\* the delta_time the backend gave.
C5_Witness ==
    /\ Accepted /\ stage = "saved"
    /\ pattern.hits # <<>>
    /\ Len(saved.lines) = 2
    /\ \A i \in 1..2 : \A j \in 1..Len(reply.lines) :
          saved.lines[i].delta_time # Fmt6(reply.lines[j].hit.delta_time)

\* C6: every record written to a variation file, for every strategy, satisfies the
\* Hit invariants: 0 <= timestamp < loop_duration, velocity in [0, 1], class in
\* {0, 1, 2}, delta_time >= 0.
C6_HitInvariantsInFile ==
    stage = "saved" =>
        \A i \in 1..Len(saved.lines) :
            /\ 0 <= saved.lines[i].timestamp
            /\ saved.lines[i].timestamp < saved.duration
            /\ 0 <= saved.lines[i].velocity
            /\ saved.lines[i].velocity <= Fmt6(VelOne)
            /\ saved.lines[i].drum_class \in Classes
            /\ saved.lines[i].delta_time >= 0

-----------------------------------------------------------------------------
(* Properties of the running program *)

Last(q) == q[Len(q)]

MsgGenerating == Msg("generation_progress", "Generating")
MsgComplete == Msg("generation_progress", "Complete!")

\* C1: at most one generation for the pattern file is in flight at any time: no
\* second run is loading, dispatching or writing the variation file while an
\* earlier one has not finished.
C1_AtMostOneInFlight ==
    Cardinality({w \in Workers : InFlight(w)}) <= 1

\* C7: the spice level always lies in [0, 1]; a spice message stores its level
\* clamped to the nearer bound, and its handling starts no generation, writes no
\* file and sends no notification.
C7_SpiceOnlyUpdatesSetting ==
    /\ [](current_spice_level \in 0..100)
    /\ [][\A t \in Handlers :
            (thr[t].pc = "spice" /\ thr'[t] # thr[t])
                => /\ current_spice_level' =
                        (IF thr[t].msg.arg < 0 THEN 0
                         ELSE IF thr[t].msg.arg > 100 THEN 100 ELSE thr[t].msg.arg)
                   /\ thr'[t].pc = "idle"
                   /\ \A w \in Workers : InFlight(w)' => InFlight(w)
                   /\ fs' = fs /\ dirs' = dirs
                   /\ sent' = sent]_vars

\* C7 witness: a level below the range has been handled and stored as 0, and
\* nothing runs, exists or was sent because of it.
C7_Witness ==
    /\ current_spice_level = 0
    /\ \A w \in Workers : thr[w].pc = "idle" /\ sent[w] = <<>>
    /\ fs[VAR] = NoText /\ dirs = {}

\* C8: a regenerate request that finds no source file sends one error notification
\* and goes no further: the handler returns with no pattern loaded, no dispatch,
\* no file or directory created or changed, and no ready or progress notification.
C8_MissingSourceOnlyError ==
    [][\A t \in Handlers :
          (thr[t].pc = "regenerate" /\ ~fs[SRC].exists /\ thr'[t] # thr[t])
              => /\ sent'[t] = <<Msg("error", "not found")>>
                 /\ \A w \in Senders \ {t} : sent'[w] = sent[w]
                 /\ thr'[t] = IdleWorker
                 /\ fs' = fs /\ dirs' = dirs]_vars

\* C8 witness: with no source file, a regenerate request has been answered by the
\* error notification alone, and there is no variation file.
C8_Witness ==
    /\ ~fs[SRC].exists
    /\ \E t \in Handlers : thr[t].pc = "idle" /\ sent[t] = <<Msg("error", "not found")>>
    /\ fs[VAR] = NoText

C10_ReadyAfterWriteBeforeComplete ==
    \A w \in Workers :
       /\ \A i \in 1..Len(sent[w]) :
             sent[w][i].addr = "variations_ready"
                => /\ i = 2 /\ sent[w][1] = MsgGenerating
                   /\ sent[w][i].arg = 1
                   /\ Len(sent[w]) = 2 => (thr[w].pc = "complete" /\ thr[w].wrote = 1)
                   /\ Len(sent[w]) = 3 => Last(sent[w]) = MsgComplete
                   /\ Len(sent[w]) <= 3
       /\ \A i \in 1..Len(sent[w]) :
             sent[w][i] = MsgComplete => (i = 3 /\ sent[w][2].addr = "variations_ready")
       /\ thr[w].pc \in {"load", "generate", "backend", "save", "write"} =>
             (thr[w].wrote = 0 /\ \A i \in 1..Len(sent[w]) :
                                      sent[w][i].addr # "variations_ready")
       /\ thr[w].pc = "ready" => (thr[w].wrote = 1 /\ sent[w] = <<MsgGenerating>>)

\* C10 witness: a run has sent 'Generating', variations_ready with count 1 and
\* 'Complete!', in that order, and has returned.
C10_Witness ==
    \E w \in Workers :
       /\ thr[w].pc = "idle"
       /\ sent[w] = <<MsgGenerating, Msg("variations_ready", 1), MsgComplete>>
       /\ fs[VAR].exists

-----------------------------------------------------------------------------
(* Properties of the file watcher *)

\* The observer thread takes the event at the head of its queue.
TakesEvent == events # <<>> /\ events' = Tail(events)

\* The event taken is accepted: the debounce timestamp moves.
AcceptsEvent == TakesEvent /\ watcher'.last_modified # watcher.last_modified

\* C11: file-change debounce.  An event for the track file raised less than the
\* cooldown (2 s) after the last accepted one is dropped, with no effect on the
\* debounce timestamp, the threads, the files or the notifications; so accepted
\* events are at least the cooldown apart; and the first event is accepted.
C11_Debounce ==
    [][(TakesEvent /\ Head(events).kind = "src")
          => /\ Head(events).at - watcher.last_modified < Cooldown
                  => /\ ~AcceptsEvent
                     /\ watcher' = watcher /\ thr' = thr /\ fs' = fs
                     /\ dirs' = dirs /\ sent' = sent
             /\ AcceptsEvent
                  => watcher'.last_modified - watcher.last_modified >= Cooldown
             /\ watcher.last_modified = 0 => AcceptsEvent]_vars

\* C12: an accepted file event starts exactly one generation in autonomous mode:
\* the observer thread, idle until then, goes into its sleep and from there into
\* one run of the handler's variation type, and no run of the observer starts in
\* any other way.  In controller-mediated mode an accepted event starts nothing,
\* writes no file and sends no notification; the observer never runs.
C12_AcceptedEventStartsOneRun ==
    /\ [](~watcher.auto_generate => (thr[W].pc = "idle" /\ sent[W] = <<>>))
    /\ [][/\ AcceptsEvent
              => /\ thr[W].pc = "idle"
                 /\ fs' = fs /\ dirs' = dirs
                 /\ \A w \in Senders \ {W} : sent'[w] = sent[w]
                 /\ IF watcher.auto_generate
                    THEN thr'[W].pc = "sleep" /\ sent'[W] = <<>>
                    ELSE thr' = thr /\ sent' = sent
          /\ (thr[W].pc = "sleep" /\ thr'[W] # thr[W])
              => (thr'[W].pc = "load" /\ thr'[W].vt = watcher.variation_type)
          /\ (thr'[W].pc = "load" /\ thr[W].pc # "load") => thr[W].pc = "sleep"
          /\ (thr'[W].pc = "sleep" /\ thr[W].pc # "sleep") => AcceptsEvent]_vars

\* C12 witness: in autonomous mode two events were accepted, the run of the
\* first is over and the run of the second has written its file.
C12_Witness ==
    /\ watcher.auto_generate
    /\ budget.events = 0 /\ events = <<>>
    /\ watcher.last_modified >= 2 * Cooldown
    /\ thr[W].pc = "ready"

-----------------------------------------------------------------------------
(* Properties of failed runs *)

\* The worker is past the empty check of its run.
PastLoad(w) == thr[w].pc \in {"generate", "backend", "save", "write", "ready", "complete"}

\* C13: when the source file loads with zero hits the run stops there: its only
\* notification is the error, the thread returns, no file or directory is
\* created or changed, and the dispatcher is never reached with an empty
\* pattern.  The manual run returns False at the same point and writes nothing.
C13_EmptyPatternShortCircuits ==
    /\ [](/\ \A w \in Workers : PastLoad(w) => thr[w].pattern.hits # <<>>
          /\ mainp.pc \in {"gvf_generate", "gvf_save"} => mainp.pattern.hits # <<>>)
    /\ [][/\ \A w \in Workers :
                (/\ thr[w].pc = "load" /\ thr'[w].pc \notin {"load", "except"}
                 /\ from_file(fs[SRC]).hits = <<>>)
                  => /\ thr'[w] = IdleWorker
                     /\ sent'[w] = <<Msg("error", "no hits")>>
                     /\ fs' = fs /\ dirs' = dirs
          /\ (/\ mainp.pc = "gvf_load" /\ mainp' # mainp
              /\ from_file(fs[SRC]).hits = <<>>)
                  => /\ mainp'.pc = "returned_false"
                     /\ fs' = fs /\ dirs' = dirs /\ sent' = sent]_vars

\* C13 witness: the source file exists and holds no hits, a regenerate request
\* has been answered by the one error notification, and nothing was written.
C13_Witness ==
    /\ fs[SRC].exists /\ fs[SRC].lines = <<>>
    /\ \E t \in Handlers : thr[t].pc = "idle" /\ sent[t] = <<Msg("error", "no hits")>>
    /\ fs[VAR] = NoText /\ dirs = {}

\* The number of error notifications in a run's messages, and whether
\* variations_ready is among them.
ErrorCount(q) == Cardinality({i \in 1..Len(q) : q[i].addr = "error"})
HasReady(q) == \E i \in 1..Len(q) : q[i].addr = "variations_ready"

\* The generation attempt of worker w ends with this step.
AttemptEnds(w) ==
    thr[w].pc \notin {"idle", "spice", "track_cleared", "sleep"} /\ thr'[w].pc = "idle"

\* C14: an attempt that fails (missing source, empty pattern, an exception while
\* loading, creating the directory, generating or writing) has sent exactly one
\* error notification and no variations_ready when it ends; an attempt that
\* succeeds has sent 'Generating', variations_ready, 'Complete!' and no error.
C14_OneErrorPerFailedAttempt ==
    [][\A w \in Workers :
          AttemptEnds(w)
              => IF thr[w].pc = "complete"
                 THEN /\ ErrorCount(sent'[w]) = 0
                      /\ sent'[w] = <<MsgGenerating, Msg("variations_ready", 1), MsgComplete>>
                 ELSE /\ ErrorCount(sent'[w]) = 1
                      /\ ~HasReady(sent'[w])
                      /\ Last(sent'[w]).addr = "error"]_vars

\* C14 witness: a run that had sent 'Generating' failed afterwards and ended with
\* the one error notification.
C14_Witness ==
    \E w \in Workers :
       /\ thr[w].pc = "idle"
       /\ sent[w] = <<MsgGenerating, Msg("error", "generating")>>

\* C15: a failed attempt returns to idle and the listener goes on serving.  A
\* thread in its except clause comes back to idle; every regenerate request is
\* carried through to idle or to the backend call, whatever failed before it;
\* while a thread is free a datagram can be received; and a run that has
\* written its file sends variations_ready.
C15_FailuresReturnToIdle ==
    /\ \A t \in Handlers : (thr[t].pc = "except") ~> (thr[t].pc = "idle")
    /\ \A t \in Handlers : (thr[t].pc = "regenerate") ~> (thr[t].pc \in {"idle", "backend"})
    /\ \A t \in Handlers : (thr[t].pc = "ready") ~> HasReady(sent[t])
    /\ []((budget.msgs > 0 /\ \E t \in Handlers : thr[t].pc = "idle")
            => ENABLED (\E t \in Handlers : \E m \in InboundServe : Receive(t, m)))

\* C15 witness: one request failed on the missing source file; the file was
\* written after that, and the request handled next ran and sent variations_ready.
C15_Witness ==
    \E t, u \in Handlers :
       /\ thr[t].pc = "idle" /\ sent[t] = <<Msg("error", "not found")>>
       /\ thr[u].pc = "idle"
       /\ sent[u] = <<MsgGenerating, Msg("variations_ready", 1), MsgComplete>>
       /\ fs[VAR].exists

-----------------------------------------------------------------------------
(* Properties of concurrent requests *)

\* C16: every generation that has started returns to idle, also when the backend
\* never answers (the call is to time out and the run to go on with the
\* groove_preserve fallback).
C16_GenerationReturnsToIdle ==
    \A t \in Handlers : InFlight(t) ~> (thr[t].pc = "idle")

\* C17: neither the listener nor the file watcher waits for a generation.  A
\* received control message can be handled at once, whatever runs are in flight;
\* a datagram can be received while a thread is free; and the observer's
\* callback returns without a generation running inside it.
C17_NothingBlocks ==
    /\ \A t \in Handlers :
          /\ thr[t].pc = "spice" => ENABLED handle_spice_change(t)
          /\ thr[t].pc = "track_cleared" => ENABLED handle_track_cleared(t)
          /\ thr[t].pc = "regenerate" => ENABLED handle_regenerate(t)
    /\ (mode = "watch" /\ budget.msgs > 0 /\ \E t \in Handlers : thr[t].pc = "idle")
          => ENABLED (\E t \in Handlers : \E m \in Inbound : Receive(t, m))
    /\ ~InFlight(W)

\* C18: triggers that arrive while a generation runs are coalesced into at most
\* one pending request: during one handler's generation, however many
\* regenerate messages arrive, at most one further generation is begun.
C18_TriggersCoalesced ==
    \A t \in Handlers : InFlight(t) => thr[t].overlapped <= 1

\* Two floats that print alike with six decimals, or differ by less than half
\* a unit of the sixth decimal.
UpToSixDecimals(a, b) == 2 * Abs(a - b) <= SubPerMicro

\* from_file(to_file(P)) has the hits of P (as to_file leaves them: in time order,
\* delta_time derived from the timestamps) up to six-decimal rounding.
HitsReproduced ==
    /\ Len(varied.hits) = Len(pattern.hits)
    /\ \A i \in 1..Len(pattern.hits) :
          /\ varied.hits[i].drum_class = pattern.hits[i].drum_class
          /\ UpToSixDecimals(varied.hits[i].timestamp, pattern.hits[i].timestamp)
          /\ UpToSixDecimals(varied.hits[i].velocity, pattern.hits[i].velocity)
          /\ UpToSixDecimals(varied.hits[i].delta_time, pattern.hits[i].delta_time)

\* C19: round trip: for every pattern P with timestamps and velocities on the
\* six-decimal grid, from_file(to_file(P)) reproduces P's hits up to six-decimal
\* rounding and reproduces P.loop_duration exactly.
C19_RoundTrip ==
    stage = "reloaded" =>
        /\ HitsReproduced
        /\ varied.loop_duration = pattern.loop_duration

\* The hits half of the round trip, on its own.
RoundTripHitsOnly == stage = "reloaded" => HitsReproduced
\* The duration half, where loop_duration is itself a six-decimal value.
RoundTripDurationOnGrid ==
    (stage = "reloaded" /\ ParseFloat(Fmt6(pattern.loop_duration)) = pattern.loop_duration)
        => varied.loop_duration = pattern.loop_duration

VelocitiesClamped ==
    \A i \in 1..Len(varied.hits) :
        varied.hits[i].velocity >= VelFloor /\ varied.hits[i].velocity <= VelOne

TimestampsInLoop ==
    \A i \in 1..Len(varied.hits) :
        varied.hits[i].timestamp >= 0 /\ varied.hits[i].timestamp < varied.loop_duration

\* C20: after humanize, for any loop_duration and any jitter, every hit's
\* velocity lies in [0.1, 1.0] and every hit's timestamp in [0, loop_duration).
C20_HumanizeClamps ==
    stage = "generated" => VelocitiesClamped /\ TimestampsInLoop

\* The velocity half on its own, and the timestamp half for loops no shorter
\* than the clamp margin of 0.01 s.
HumanizeVelocities == stage = "generated" => VelocitiesClamped
HumanizeTimestampsLongLoop ==
    (stage = "generated" /\ pattern.loop_duration >= ClampMargin) => TimestampsInLoop

-----------------------------------------------------------------------------
(* Properties of the single transforms *)

\* x mod L for L > 0: the r in [0, L) with x = q * L + r, q the floor of x / L.
Modulo(x, L) == x - L * (x \div L)

\* `out` is `p` with every timestamp moved by `a` modulo the loop, and nothing
\* else changed.
ShiftedBy(p, out, a) ==
    /\ out.loop_duration = p.loop_duration
    /\ Len(out.hits) = Len(p.hits)
    /\ \A i \in 1..Len(p.hits) :
          /\ out.hits[i].timestamp = Modulo(p.hits[i].timestamp + a, p.loop_duration)
          /\ out.hits[i].timestamp >= 0 /\ out.hits[i].timestamp < p.loop_duration
          /\ out.hits[i].drum_class = p.hits[i].drum_class
          /\ out.hits[i].velocity = p.hits[i].velocity

\* C21: shift maps every timestamp t to (t + S) mod loop_duration for any S and
\* leaves hit count, classes and velocities alone; when S is not given it is
\* k * loop_duration / 16 with k in {-2, -1, 1, 2}.
C21_ShiftWraps ==
    [][\A S \in ShiftAmounts :
          Shift(S) =>
              IF S = NoAmount
              THEN \E k \in {-2, -1, 1, 2} :
                      ShiftedBy(pattern, varied', k * (pattern.loop_duration \div 16))
              ELSE ShiftedBy(pattern, varied', S[1])]_vars

\* A hit at the loop start of a one-second loop has been shifted a quarter of a
\* second back and has wrapped to 0.75 s.
C21_Witness ==
    /\ stage = "generated" /\ vtype = "shift"
    /\ pattern.loop_duration = Sec
    /\ Len(pattern.hits) = MaxHits
    /\ pattern.hits[1].timestamp = 0
    /\ varied.hits[1].timestamp = Micro(750000)

KickTimes(hits) == {hits[i].timestamp : i \in {j \in 1..Len(hits) : hits[j].drum_class = 0}}

\* C23: simplify keeps the first kick, first in time order: when the input has
\* a hit of class 0, the output has the class-0 hit with the smallest
\* timestamp, whatever the random drops and the order the hits are stored in.
C23_SimplifyKeepsEarliestKick ==
    (stage = "generated" /\ vtype = "simplify" /\ KickTimes(pattern.hits) # {})
        => \E t \in KickTimes(varied.hits) : \A u \in KickTimes(pattern.hits) : t <= u

\* The transforms other than humanize, as generate_variation names them.
OtherTransforms == {"mutate", "densify", "simplify", "shift", "groove_preserve", "random"}

\* The Hit invariants on the caller's pattern.
HitInvariants(p) ==
    \A i \in 1..Len(p.hits) :
        /\ p.hits[i].drum_class \in Classes
        /\ p.hits[i].timestamp >= 0 /\ p.hits[i].timestamp < p.loop_duration
        /\ p.hits[i].velocity >= 0 /\ p.hits[i].velocity <= VelOne
        /\ p.hits[i].delta_time >= 0

SameLoopHitsInside ==
    /\ varied.loop_duration = pattern.loop_duration
    /\ \A i \in 1..Len(varied.hits) :
          /\ varied.hits[i].timestamp >= 0
          /\ varied.hits[i].timestamp < pattern.loop_duration
          /\ varied.hits[i].drum_class \in Classes

\* C24: for every transform other than humanize and every input pattern that
\* satisfies the Hit invariants, the output has the input's loop_duration and
\* every output hit, ghost and fill hits included, has its timestamp in
\* [0, loop_duration) and its class in {0, 1, 2}.
C24_TransformsKeepHitsInLoop ==
    (stage = "generated" /\ vtype \in OtherTransforms /\ HitInvariants(pattern))
        => SameLoopHitsInside

\* The same for loops no shorter than the clamp margin of 0.01 s.
TransformsKeepHitsInLongLoop ==
    (stage = "generated" /\ vtype \in OtherTransforms /\ HitInvariants(pattern)
        /\ pattern.loop_duration >= ClampMargin)
        => SameLoopHitsInside

-----------------------------------------------------------------------------
(* Properties of manual mode and of the dispatch *)

\* generate_variation(p, t) can raise, for some backend reply.
CanRaise(p, t) ==
    \E r \in Replies(p.loop_duration) \cup {NoReply} :
        Raised \in generate_variation(p, t, current_spice_level,
                                      HAVE_GEMINI, GEMINI_API_KEY, r)

\* C25: manual generation succeeds: with the source loaded with at least one
\* hit, generate_variation_for_file goes on to save for every variation type
\* and for the keyword arguments main passes; it returns False from the
\* generation step only when generating the variation fails.
C25_ManualGenerationSucceeds ==
    [][(mainp.pc = "gvf_generate" /\ mainp'.pc = "returned_false")
          => CanRaise(mainp.pattern, mainp.vt)]_vars

\* The same for a caller that passes no temperature of its own.
ManualSucceedsWithoutTemperature ==
    [][(mainp.pc = "gvf_generate" /\ ~mainp.kw_temperature /\ mainp'.pc = "returned_false")
          => CanRaise(mainp.pattern, mainp.vt)]_vars

\* C26: a generation started by a regenerate message dispatches 'gemini', with
\* the spice level current at dispatch as its strength, whatever variation
\* type watch mode was started with; the configured type is used only by
\* generations that a file change starts.
C26_RegenerateDispatchesGemini ==
    /\ [](\A t \in Handlers : InFlight(t) => thr[t].vt = "gemini")
    /\ [](InFlight(W) => thr[W].vt = watcher.variation_type)
    /\ [][\A w \in Workers :
            (thr[w].pc = "generate" /\ thr'[w].pc # "generate")
                => thr'[w].temp = current_spice_level]_vars

\* A requested generation is past its dispatch with 'gemini' and a spice level
\* set after the start, in a program started with another variation type.
C26_Witness ==
    /\ mode = "watch"
    /\ watcher.variation_type = "simplify"
    /\ current_spice_level = 100
    /\ \E t \in Handlers :
          /\ thr[t].pc \in {"backend", "save"}
          /\ thr[t].vt = "gemini"
          /\ thr[t].temp = 100
====
